---- MODULE Spec2Model ----
(***************************************************************************)
(* command-ext: extension traits over std::process::Command.               *)
(*                                                                         *)
(* The model follows src/src/wrap/mod.rs (the CommandWrap protocol: hooks, *)
(* builder methods, terminal actions), src/src/check/mod.rs (check), and   *)
(* the three observers src/src/log, src/src/print, src/src/trace.          *)
(*                                                                         *)
(* Text is a sequence of tokens.  A token is either one byte / character   *)
(* ("x", " ", "\n"), a byte that can never occur in UTF-8 ("0xFF"), the    *)
(* replacement character ("U+FFFD"), or a literal chunk of a format string *)
(* ("args: ").  An OsStr is a sequence of byte tokens.                     *)
(***************************************************************************)
EXTENDS Integers, Sequences, FiniteSets, TLC

VARIABLES
    cmd,     \* the Command the wrapper borrows (&'a mut Command)
    wrap,    \* the wrapper: its kind and its six channel settings
    os,      \* what the operating system does with this Command when it is run
    call,    \* the last call made by the caller: [name, arg]
    log,     \* what that call did, in order: hook calls, platform calls, records
    ret,     \* what that call returned to the caller
    direct,  \* a second Command, driven by the same calls made on it directly
    dlog,    \* the platform calls the direct use made in the last call
    dret,    \* what the direct use returned for the last terminal action
    inner,   \* the wrappers that lent the Command to `wrap` through command_mut()
    peer     \* another Command of the caller with its own wrapper: [cmd, wrap]

vars == <<cmd, wrap, os, call, log, ret, direct, dlog, dret, inner, peer>>

----------------------------------------------------------------------------
(* Bounds *)

MaxArgs == 2     \* longest argument list
MaxBytes == 2    \* most bytes a process writes, stdout and stderr together
MaxPairs == 2    \* longest list of pairs given to one envs call
MaxArgsEach == 1 \* longest argument list of each of two Commands used together

----------------------------------------------------------------------------
(* Option and Result *)

None == <<>>
Some(v) == <<v>>
IsSome(o) == o # <<>>
Unwrap(o) == o[1]

Ok(v) == [ok |-> TRUE, val |-> v]
Err(e) == [ok |-> FALSE, err |-> e]

----------------------------------------------------------------------------
(* Input domains *)

Echo == <<"echo">>
NoSuchProgram == <<"asdfasdfasdfasdfjkljkljkl">>
Programs == {Echo, NoSuchProgram}

ArgVals == {<<"a">>, <<"b">>}
EnvKeyOrder == <<(<<"X">>), (<<"Y">>)>>   \* every key, in BTreeMap (sorted) order
EnvKeys == {EnvKeyOrder[1]}           \* the keys the calls of a chain draw from
EnvVals == {<<"1">>}
Dirs == {<<"/tmp">>}
StdioVals == {"piped"}

ByteVals == {"x", " ", "0xFF"}
InvalidBytes == {"0xFF"}
Whitespace == {" ", "\n"}

SeqsUpTo(S, n) == UNION {[1..k -> S] : k \in 0..n}

\* <<stdout, stderr>> of one run
StreamPairs ==
    UNION { {<<o, e>> : e \in SeqsUpTo(ByteVals, MaxBytes - Len(o))} :
              o \in SeqsUpTo(ByteVals, MaxBytes) }

ExitStatuses ==
    { [exited |-> TRUE, code |-> 0],
      [exited |-> TRUE, code |-> 1],
      [exited |-> FALSE, code |-> 9] }

Levels == {"Error", "Warn", "Info", "Debug", "Trace"}
ChannelLevels == {"Warn", "Debug"}    \* the levels the channel setters are given
Channels == {"args", "envs", "current_dir", "status", "stdout", "stderr"}

----------------------------------------------------------------------------
(* Text: lossy decoding, trimming, joining, Display of an exit status *)

\* String::from_utf8_lossy / OsStr::to_string_lossy: valid bytes are kept,
\* every byte that cannot be part of UTF-8 becomes U+FFFD; it never fails.
\* (ByteVals holds ASCII bytes and 0xFF only, so no multi-byte sequence
\* arises and the decoding is byte by byte.)
Utf8Lossy(bs) ==
    [i \in 1..Len(bs) |-> IF bs[i] \in InvalidBytes THEN "U+FFFD" ELSE bs[i]]

RECURSIVE TrimStart(_)
TrimStart(t) ==
    IF t # <<>> /\ Head(t) \in Whitespace THEN TrimStart(Tail(t)) ELSE t

RECURSIVE TrimEnd(_)
TrimEnd(t) ==
    IF t # <<>> /\ t[Len(t)] \in Whitespace
    THEN TrimEnd(SubSeq(t, 1, Len(t) - 1))
    ELSE t

\* str::trim
Trim(t) == TrimEnd(TrimStart(t))

\* [OsString]::join(sep)
RECURSIVE Join(_, _)
Join(ss, sep) ==
    IF ss = <<>> THEN <<>>
    ELSE IF Len(ss) = 1 THEN ss[1]
    ELSE ss[1] \o sep \o Join(Tail(ss), sep)

Digit(n) == CASE n = 0 -> "0" [] n = 1 -> "1" [] n = 9 -> "9"

\* ExitStatus::success and its Display
Success(st) == st.exited /\ st.code = 0
DisplayStatus(st) ==
    IF st.exited THEN <<"exit status: ", Digit(st.code)>>
    ELSE <<"signal: ", Digit(st.code)>>

----------------------------------------------------------------------------
(* The platform primitive std::process::Command, as the crate calls it *)

New(p) ==
    [ program |-> p, args |-> <<>>, envs |-> <<>>, clear |-> FALSE,
      cwd |-> None, stdin |-> None, stdout |-> None, stderr |-> None ]

StdArg(c, a) == [c EXCEPT !.args = Append(@, a)]
StdArgs(c, as) == [c EXCEPT !.args = @ \o as]

\* The explicit environment is a map from key to Some(value), or to None for
\* a variable that is explicitly removed.
EnvPut(e, k, ov) == [x \in (DOMAIN e) \cup {k} |-> IF x = k THEN ov ELSE e[x]]
EnvDel(e, k) == [x \in (DOMAIN e) \ {k} |-> e[x]]

StdEnv(c, k, v) == [c EXCEPT !.envs = EnvPut(@, k, Some(v))]

RECURSIVE StdEnvs(_, _)
StdEnvs(c, kvs) ==
    IF kvs = <<>> THEN c
    ELSE StdEnvs(StdEnv(c, kvs[1][1], kvs[1][2]), Tail(kvs))

StdEnvRemove(c, k) ==
    IF c.clear THEN [c EXCEPT !.envs = EnvDel(@, k)]
    ELSE [c EXCEPT !.envs = EnvPut(@, k, None)]

StdEnvClear(c) == [c EXCEPT !.clear = TRUE, !.envs = <<>>]
StdCurrentDir(c, d) == [c EXCEPT !.cwd = Some(d)]
StdStdin(c, cfg) == [c EXCEPT !.stdin = Some(cfg)]
StdStdout(c, cfg) == [c EXCEPT !.stdout = Some(cfg)]
StdStderr(c, cfg) == [c EXCEPT !.stderr = Some(cfg)]

GetProgram(c) == c.program
GetArgs(c) == c.args
GetCurrentDir(c) == c.cwd
\* get_envs: the explicit entries in key order, each <<key, Option value>>
GetEnvs(c) ==
    LET present == SelectSeq(EnvKeyOrder, LAMBDA k : k \in DOMAIN c.envs)
    IN [i \in 1..Len(present) |-> <<present[i], c.envs[present[i]]>>]

\* What the operating system does with a Command: it fails to create the
\* process, or the process runs to an exit status having written its streams.
\* A program that does not exist is never created.  The fate is drawn once
\* for a behaviour: no method reads the result of an earlier run, so every
\* call is still taken from every Command with every answer.
IoErrors(c) ==
    IF c.program = NoSuchProgram THEN {"NotFound"} ELSE {"PermissionDenied"}

Fates(c) ==
    {Err(e) : e \in IoErrors(c)}
    \cup (IF c.program # NoSuchProgram
          THEN { Ok([status |-> st, stdout |-> oe[1], stderr |-> oe[2]]) :
                   st \in ExitStatuses, oe \in StreamPairs }
          ELSE {})

BriefFates(c) ==
    { Err("PermissionDenied"),
      Ok([ status |-> [exited |-> TRUE, code |-> 1],
           stdout |-> <<"x">>, stderr |-> <<>> ]) }

\* Command::spawn, Command::status, Command::output on a Command with fate f
PlatformSpawn(f) == IF f.ok THEN Ok("Child") ELSE Err(f.err)
PlatformStatus(f) == IF f.ok THEN Ok(f.val.status) ELSE Err(f.err)
PlatformOutput(f) == f

----------------------------------------------------------------------------
(* Events of one call, in the order they happen *)

HookEv(name, arg, seen) ==
    [kind |-> "hook", name |-> name, arg |-> arg, seen |-> seen]
PlatEv(name, res, seen) ==
    [kind |-> "platform", name |-> name, arg |-> res, seen |-> seen]
RecEv(chan, sink, level, msg) ==
    [ kind |-> "record", name |-> chan,
      arg |-> [sink |-> sink, level |-> level, msg |-> msg], seen |-> <<>> ]

Hooks(l) == SelectSeq(l, LAMBDA e : e.kind = "hook")
PlatformCalls(l) == SelectSeq(l, LAMBDA e : e.kind = "platform")
Records(l) == SelectSeq(l, LAMBDA e : e.kind = "record")
Named(l, n) == SelectSeq(l, LAMBDA e : e.name = n)
Names(l) == [i \in 1..Len(l) |-> l[i].name]

----------------------------------------------------------------------------
(* Wrappers.  kind "Command" is no wrapper at all (a bare Command), "Wrap" *)
(* is a CommandWrap implementor that overrides no hook, "Log", "Print" and *)
(* "Trace" are the observers.  A Log or Trace channel is an Option<Level>. *)
(* A Print channel is a bool, written as an Option as well: false is None  *)
(* and true is Some("println").                                            *)

Wrapper(kind, args, envs, current_dir, status, stdout, stderr) ==
    [ kind |-> kind, args |-> args, envs |-> envs, current_dir |-> current_dir,
      status |-> status, stdout |-> stdout, stderr |-> stderr ]

\* From<&mut Command>: the builder's defaults, every channel off
CommandLogFrom == Wrapper("Log", None, None, None, None, None, None)
CommandPrintFrom == Wrapper("Print", None, None, None, None, None, None)
CommandTraceFrom == Wrapper("Trace", None, None, None, None, None, None)

\* impl CommandExtLog / CommandExtPrint / CommandExtTrace for Command:
\* Command::log_<chan>(filter) is CommandLog::builder().command(self)
\*     .<chan>(filter).build(), and the like
CommandExtLog(chan, level) == [CommandLogFrom EXCEPT ![chan] = Some(level)]
CommandExtPrint(chan) == [CommandPrintFrom EXCEPT ![chan] = Some("println")]
CommandExtTrace(chan, level) == [CommandTraceFrom EXCEPT ![chan] = Some(level)]

\* Faulty variant: log_stdout and log_stderr both set the two stream channels
LogChannelStreamsTogether(w, chan, level) ==
    IF chan \in {"stdout", "stderr"}
    THEN [w EXCEPT !.stdout = Some(level), !.stderr = Some(level)]
    ELSE [w EXCEPT ![chan] = Some(level)]

\* CommandLog::log_<chan>(filter): self.<chan> = Some(filter.into()); self
LogChannel(w, chan, level) == [w EXCEPT ![chan] = Some(level)]
\* CommandPrint::print_<chan>(): self.<chan> = true; self
PrintChannel(w, chan) == [w EXCEPT ![chan] = Some("println")]
\* CommandTrace::trace_<chan>(filter): self.<chan> = Some(filter.into()); self
TraceChannel(w, chan, level) == [w EXCEPT ![chan] = Some(level)]

\* The three pre-execution lines, as the format strings build them
ArgsLine(c) ==
    <<"args: ">> \o Utf8Lossy(GetProgram(c)) \o <<" ">>
        \o Utf8Lossy(Join(GetArgs(c), <<" ">>))
\* Faulty variant: a removed variable is written as the key alone
EnvsLineRemovedBare(kv) ==
    IF IsSome(kv[2])
    THEN <<"envs: ">> \o Utf8Lossy(kv[1]) \o <<"=">> \o Utf8Lossy(Unwrap(kv[2]))
    ELSE <<"envs: ">> \o Utf8Lossy(kv[1])

EnvsLine(kv) ==
    <<"envs: ">> \o Utf8Lossy(kv[1]) \o <<"=">>
        \o Utf8Lossy(IF IsSome(kv[2]) THEN Unwrap(kv[2]) ELSE <<>>)
CurrentDirLine(c) ==
    <<"current_dir: ">>
        \o (IF IsSome(GetCurrentDir(c))
            THEN Utf8Lossy(Unwrap(GetCurrentDir(c))) ELSE <<>>)
StatusLine(st) == <<"status: ">> \o DisplayStatus(st)
StdoutLine(out) == <<"stdout: ">> \o out
StderrLine(err) == <<"stderr: ">> \o err

\* log::log!(level, ...)
LogMacro(chan, level, msg) == <<RecEv(chan, "log", level, msg)>>

\* Faulty variant: the working directory is logged before the environment
LogBeforeDirFirst(w, c) ==
    (IF IsSome(w.args)
     THEN LogMacro("args", Unwrap(w.args), ArgsLine(c)) ELSE <<>>)
    \o (IF IsSome(w.current_dir)
        THEN LogMacro("current_dir", Unwrap(w.current_dir), CurrentDirLine(c))
        ELSE <<>>)
    \o (IF IsSome(w.envs)
        THEN [i \in 1..Len(GetEnvs(c)) |->
                LogMacro("envs", Unwrap(w.envs), EnvsLine(GetEnvs(c)[i]))[1]]
        ELSE <<>>)

\* CommandLog::log_before
LogBefore(w, c) ==
    (IF IsSome(w.args)
     THEN LogMacro("args", Unwrap(w.args), ArgsLine(c)) ELSE <<>>)
    \o (IF IsSome(w.envs)
        THEN [i \in 1..Len(GetEnvs(c)) |->
                LogMacro("envs", Unwrap(w.envs), EnvsLine(GetEnvs(c)[i]))[1]]
        ELSE <<>>)
    \o (IF IsSome(w.current_dir)
        THEN LogMacro("current_dir", Unwrap(w.current_dir), CurrentDirLine(c))
        ELSE <<>>)

\* Faulty variant: the captured streams are logged as they are, not trimmed
LogAfterOutputUntrimmed(w, output) ==
    IF output.ok
    THEN (IF IsSome(w.status)
          THEN LogMacro("status", Unwrap(w.status), StatusLine(output.val.status))
          ELSE <<>>)
         \o (IF IsSome(w.stdout) /\ Utf8Lossy(output.val.stdout) # <<>>
             THEN LogMacro("stdout", Unwrap(w.stdout),
                           StdoutLine(Utf8Lossy(output.val.stdout)))
             ELSE <<>>)
         \o (IF IsSome(w.stderr) /\ Utf8Lossy(output.val.stderr) # <<>>
             THEN LogMacro("stderr", Unwrap(w.stderr),
                           StderrLine(Utf8Lossy(output.val.stderr)))
             ELSE <<>>)
    ELSE <<>>

\* CommandLog::after_output
LogAfterOutput(w, output) ==
    IF output.ok
    THEN (IF IsSome(w.status)
          THEN LogMacro("status", Unwrap(w.status), StatusLine(output.val.status))
          ELSE <<>>)
         \o (IF IsSome(w.stdout) /\ Trim(Utf8Lossy(output.val.stdout)) # <<>>
             THEN LogMacro("stdout", Unwrap(w.stdout),
                           StdoutLine(Trim(Utf8Lossy(output.val.stdout))))
             ELSE <<>>)
         \o (IF IsSome(w.stderr) /\ Trim(Utf8Lossy(output.val.stderr)) # <<>>
             THEN LogMacro("stderr", Unwrap(w.stderr),
                           StderrLine(Trim(Utf8Lossy(output.val.stderr))))
             ELSE <<>>)
    ELSE <<>>

\* Faulty variant: after_status logs the status of a successful run only
LogAfterStatusOnlySuccess(w, status) ==
    IF status.ok /\ IsSome(w.status) /\ Success(status.val)
    THEN LogMacro("status", Unwrap(w.status), StatusLine(status.val))
    ELSE <<>>

\* CommandLog::after_status
LogAfterStatus(w, status) ==
    IF status.ok /\ IsSome(w.status)
    THEN LogMacro("status", Unwrap(w.status), StatusLine(status.val))
    ELSE <<>>

\* println!(...)
Println(chan, msg) == <<RecEv(chan, "println", "", msg)>>

\* Faulty variant: the lines are those of the Command as the wrapper was given
\* it, before any builder call
PrintBeforeSnapshot(w, c) ==
    LET c0 == New(GetProgram(c))
    IN (IF IsSome(w.args) THEN Println("args", ArgsLine(c0)) ELSE <<>>)
       \o (IF IsSome(w.envs)
           THEN [i \in 1..Len(GetEnvs(c0)) |->
                   Println("envs", EnvsLine(GetEnvs(c0)[i]))[1]]
           ELSE <<>>)
       \o (IF IsSome(w.current_dir)
           THEN Println("current_dir", CurrentDirLine(c0)) ELSE <<>>)

\* CommandPrint::print_before
PrintBefore(w, c) ==
    (IF IsSome(w.args) THEN Println("args", ArgsLine(c)) ELSE <<>>)
    \o (IF IsSome(w.envs)
        THEN [i \in 1..Len(GetEnvs(c)) |->
                Println("envs", EnvsLine(GetEnvs(c)[i]))[1]]
        ELSE <<>>)
    \o (IF IsSome(w.current_dir) THEN Println("current_dir", CurrentDirLine(c)) ELSE <<>>)

\* CommandPrint::after_output
PrintAfterOutput(w, output) ==
    IF output.ok
    THEN (IF IsSome(w.status) THEN Println("status", StatusLine(output.val.status)) ELSE <<>>)
         \o (IF IsSome(w.stdout) /\ Trim(Utf8Lossy(output.val.stdout)) # <<>>
             THEN Println("stdout", StdoutLine(Trim(Utf8Lossy(output.val.stdout))))
             ELSE <<>>)
         \o (IF IsSome(w.stderr) /\ Trim(Utf8Lossy(output.val.stderr)) # <<>>
             THEN Println("stderr", StderrLine(Trim(Utf8Lossy(output.val.stderr))))
             ELSE <<>>)
    ELSE <<>>

\* CommandPrint::after_status
\* Faulty variant: after_status also prints on the stdout and stderr channels
PrintAfterStatusWithStreams(w, status) ==
    IF status.ok
    THEN (IF IsSome(w.status) THEN Println("status", StatusLine(status.val)) ELSE <<>>)
         \o (IF IsSome(w.stdout) THEN Println("stdout", StdoutLine(<<>>)) ELSE <<>>)
         \o (IF IsSome(w.stderr) THEN Println("stderr", StderrLine(<<>>)) ELSE <<>>)
    ELSE <<>>

PrintAfterStatus(w, status) ==
    IF status.ok /\ IsSome(w.status) THEN Println("status", StatusLine(status.val)) ELSE <<>>

\* Faulty variant: the WARN branch of the macro calls error!
TraceMacroWarnAsError(chan, level, msg) ==
    CASE level = "Trace" -> <<RecEv(chan, "tracing", "Trace", msg)>>
      [] level = "Debug" -> <<RecEv(chan, "tracing", "Debug", msg)>>
      [] level = "Info" -> <<RecEv(chan, "tracing", "Info", msg)>>
      [] level = "Warn" -> <<RecEv(chan, "tracing", "Error", msg)>>
      [] level = "Error" -> <<RecEv(chan, "tracing", "Error", msg)>>

\* trace's log! macro: one branch per tracing::Level
TraceMacro(chan, level, msg) ==
    CASE level = "Trace" -> <<RecEv(chan, "tracing", "Trace", msg)>>
      [] level = "Debug" -> <<RecEv(chan, "tracing", "Debug", msg)>>
      [] level = "Info" -> <<RecEv(chan, "tracing", "Info", msg)>>
      [] level = "Warn" -> <<RecEv(chan, "tracing", "Warn", msg)>>
      [] level = "Error" -> <<RecEv(chan, "tracing", "Error", msg)>>

\* CommandTrace::trace_before
\* Faulty variant: no current_dir event when no working directory is set
TraceBeforeSkipsUnsetDir(w, c) ==
    (IF IsSome(w.args)
     THEN TraceMacro("args", Unwrap(w.args), ArgsLine(c)) ELSE <<>>)
    \o (IF IsSome(w.envs)
        THEN [i \in 1..Len(GetEnvs(c)) |->
                TraceMacro("envs", Unwrap(w.envs), EnvsLine(GetEnvs(c)[i]))[1]]
        ELSE <<>>)
    \o (IF IsSome(w.current_dir) /\ IsSome(GetCurrentDir(c))
        THEN TraceMacro("current_dir", Unwrap(w.current_dir), CurrentDirLine(c))
        ELSE <<>>)

TraceBefore(w, c) ==
    (IF IsSome(w.args)
     THEN TraceMacro("args", Unwrap(w.args), ArgsLine(c)) ELSE <<>>)
    \o (IF IsSome(w.envs)
        THEN [i \in 1..Len(GetEnvs(c)) |->
                TraceMacro("envs", Unwrap(w.envs), EnvsLine(GetEnvs(c)[i]))[1]]
        ELSE <<>>)
    \o (IF IsSome(w.current_dir)
        THEN TraceMacro("current_dir", Unwrap(w.current_dir), CurrentDirLine(c))
        ELSE <<>>)

\* CommandTrace::after_output
\* Faulty variant: after_output reports a failed platform call on the status
\* channel
TraceAfterOutputReportsFailure(w, output) ==
    IF output.ok
    THEN (IF IsSome(w.status)
          THEN TraceMacro("status", Unwrap(w.status), StatusLine(output.val.status))
          ELSE <<>>)
         \o (IF IsSome(w.stdout) /\ Trim(Utf8Lossy(output.val.stdout)) # <<>>
             THEN TraceMacro("stdout", Unwrap(w.stdout),
                             StdoutLine(Trim(Utf8Lossy(output.val.stdout))))
             ELSE <<>>)
         \o (IF IsSome(w.stderr) /\ Trim(Utf8Lossy(output.val.stderr)) # <<>>
             THEN TraceMacro("stderr", Unwrap(w.stderr),
                             StderrLine(Trim(Utf8Lossy(output.val.stderr))))
             ELSE <<>>)
    ELSE IF IsSome(w.status)
         THEN TraceMacro("status", Unwrap(w.status), <<"status: ", output.err>>)
         ELSE <<>>

TraceAfterOutput(w, output) ==
    IF output.ok
    THEN (IF IsSome(w.status)
          THEN TraceMacro("status", Unwrap(w.status), StatusLine(output.val.status))
          ELSE <<>>)
         \o (IF IsSome(w.stdout) /\ Trim(Utf8Lossy(output.val.stdout)) # <<>>
             THEN TraceMacro("stdout", Unwrap(w.stdout),
                             StdoutLine(Trim(Utf8Lossy(output.val.stdout))))
             ELSE <<>>)
         \o (IF IsSome(w.stderr) /\ Trim(Utf8Lossy(output.val.stderr)) # <<>>
             THEN TraceMacro("stderr", Unwrap(w.stderr),
                             StderrLine(Trim(Utf8Lossy(output.val.stderr))))
             ELSE <<>>)
    ELSE <<>>

\* CommandTrace::after_status
TraceAfterStatus(w, status) ==
    IF status.ok /\ IsSome(w.status)
    THEN TraceMacro("status", Unwrap(w.status), StatusLine(status.val))
    ELSE <<>>

\* Faulty variant: CommandLog does not override on_status
HookBodyNoLogOnStatus(w, name, arg, c) ==
    CASE w.kind = "Log" /\ name \in {"on_spawn", "on_output"} ->
             LogBefore(w, c)
      [] w.kind = "Log" /\ name = "after_output" -> LogAfterOutput(w, arg)
      [] w.kind = "Log" /\ name = "after_status" -> LogAfterStatus(w, arg)
      [] w.kind = "Print" /\ name \in {"on_spawn", "on_output", "on_status"} ->
             PrintBefore(w, c)
      [] w.kind = "Print" /\ name = "after_output" -> PrintAfterOutput(w, arg)
      [] w.kind = "Print" /\ name = "after_status" -> PrintAfterStatus(w, arg)
      [] w.kind = "Trace" /\ name \in {"on_spawn", "on_output", "on_status"} ->
             TraceBefore(w, c)
      [] w.kind = "Trace" /\ name = "after_output" -> TraceAfterOutput(w, arg)
      [] w.kind = "Trace" /\ name = "after_status" -> TraceAfterStatus(w, arg)
      [] OTHER -> <<>>

\* What the body of hook `name` does on wrapper w.  Every hook a wrapper does
\* not override is the protocol's default: an empty body.
\* Faulty variant: CommandLog overrides after_spawn and logs on the status channel
HookBodyAfterSpawnLogs(w, name, arg, c) ==
    CASE w.kind = "Log" /\ name \in {"on_spawn", "on_output", "on_status"} ->
             LogBefore(w, c)
      [] w.kind = "Log" /\ name = "after_output" -> LogAfterOutput(w, arg)
      [] w.kind = "Log" /\ name = "after_status" -> LogAfterStatus(w, arg)
      [] w.kind = "Log" /\ name = "after_spawn" ->
             IF arg.ok /\ IsSome(w.status)
             THEN LogMacro("status", Unwrap(w.status), <<"status: ", "running">>)
             ELSE <<>>
      [] w.kind = "Print" /\ name \in {"on_spawn", "on_output", "on_status"} ->
             PrintBefore(w, c)
      [] w.kind = "Print" /\ name = "after_output" -> PrintAfterOutput(w, arg)
      [] w.kind = "Print" /\ name = "after_status" -> PrintAfterStatus(w, arg)
      [] w.kind = "Trace" /\ name \in {"on_spawn", "on_output", "on_status"} ->
             TraceBefore(w, c)
      [] w.kind = "Trace" /\ name = "after_output" -> TraceAfterOutput(w, arg)
      [] w.kind = "Trace" /\ name = "after_status" -> TraceAfterStatus(w, arg)
      [] OTHER -> <<>>

HookBody(w, name, arg, c) ==
    CASE w.kind = "Log" /\ name \in {"on_spawn", "on_output", "on_status"} ->
             LogBefore(w, c)
      [] w.kind = "Log" /\ name = "after_output" -> LogAfterOutput(w, arg)
      [] w.kind = "Log" /\ name = "after_status" -> LogAfterStatus(w, arg)
      [] w.kind = "Print" /\ name \in {"on_spawn", "on_output", "on_status"} ->
             PrintBefore(w, c)
      [] w.kind = "Print" /\ name = "after_output" -> PrintAfterOutput(w, arg)
      [] w.kind = "Print" /\ name = "after_status" -> PrintAfterStatus(w, arg)
      [] w.kind = "Trace" /\ name \in {"on_spawn", "on_output", "on_status"} ->
             TraceBefore(w, c)
      [] w.kind = "Trace" /\ name = "after_output" -> TraceAfterOutput(w, arg)
      [] w.kind = "Trace" /\ name = "after_status" -> TraceAfterStatus(w, arg)
      [] OTHER -> <<>>

\* A call self.on_x(..) / self.after_x(..): the call itself, then its body.
\* A hook takes &mut self but reaches the Command only through command().
Hook(w, name, arg, c) == <<HookEv(name, arg, c)>> \o HookBody(w, name, arg, c)

----------------------------------------------------------------------------
(* The CommandWrap protocol: each provided method returns the Command it   *)
(* leaves, the events of the call in order, and the value handed back.     *)

Done(c, l, r) == [cmd |-> c, log |-> l, ret |-> r]

\* `self`, returned by every builder method
SelfRef(w) == [ref |-> w.kind]

WrapArg(w, c, arg) ==
    LET h == Hook(w, "on_arg", arg, c)
    IN Done(StdArg(c, arg), h, SelfRef(w))

\* Faulty variant: args does not forward the arguments to the Command
WrapArgsDropsArgs(w, c, args) ==
    Done(c, <<>>, SelfRef(w))

\* args calls no hook before it applies the arguments
WrapArgs(w, c, args) ==
    Done(StdArgs(c, args), <<>>, SelfRef(w))

WrapEnv(w, c, key, val) ==
    LET h == Hook(w, "on_env", <<key, val>>, c)
    IN Done(StdEnv(c, key, val), h, SelfRef(w))

\* Faulty variant: on_envs runs when the first pair is already applied
WrapEnvsHookMidway(w, c, kvs) ==
    LET first == IF kvs = <<>> THEN c ELSE StdEnv(c, kvs[1][1], kvs[1][2])
        h == Hook(w, "on_envs", kvs, first)
    IN Done(StdEnvs(c, kvs), h, SelfRef(w))

\* Faulty variant: envs applies the pairs from the last to the first
WrapEnvsLastFirst(w, c, kvs) ==
    LET h == Hook(w, "on_envs", kvs, c)
        back == [i \in 1..Len(kvs) |-> kvs[Len(kvs) + 1 - i]]
    IN Done(StdEnvs(c, back), h, SelfRef(w))

WrapEnvs(w, c, kvs) ==
    LET h == Hook(w, "on_envs", kvs, c)
    IN Done(StdEnvs(c, kvs), h, SelfRef(w))

WrapEnvRemove(w, c, key) ==
    LET h == Hook(w, "on_env_remove", key, c)
    IN Done(StdEnvRemove(c, key), h, SelfRef(w))

WrapEnvClear(w, c) ==
    LET h == Hook(w, "on_env_clear", <<>>, c)
    IN Done(StdEnvClear(c), h, SelfRef(w))

WrapCurrentDir(w, c, dir) ==
    LET h == Hook(w, "on_current_dir", dir, c)
    IN Done(StdCurrentDir(c, dir), h, SelfRef(w))

WrapStdin(w, c, cfg) ==
    LET h == Hook(w, "on_stdin", cfg, c)
    IN Done(StdStdin(c, cfg), h, SelfRef(w))

WrapStdout(w, c, cfg) ==
    LET h == Hook(w, "on_stdout", cfg, c)
    IN Done(StdStdout(c, cfg), h, SelfRef(w))

WrapStderr(w, c, cfg) ==
    LET h == Hook(w, "on_stderr", cfg, c)
    IN Done(StdStderr(c, cfg), h, SelfRef(w))

\* Accessors: each reads the Command through command(), and fires no hook
WrapGetProgram(w, c) == GetProgram(c)
\* Faulty variant: the accessor reads a copy of the Command taken when the
\* wrapper was made
WrapGetArgsOfCopy(w, c) == GetArgs(New(GetProgram(c)))

WrapGetArgs(w, c) == GetArgs(c)
WrapGetEnvs(w, c) == GetEnvs(c)
WrapGetCurrentDir(w, c) == GetCurrentDir(c)

\* Faulty variant: spawn fires the hooks of output
WrapSpawnOutputHooks(w, c, r) ==
    LET pre == Hook(w, "on_output", <<>>, c)
        child == r
        post == Hook(w, "after_spawn", child, c)
    IN Done(c, pre \o <<PlatEv("spawn", child, c)>> \o post, child)

\* Terminal actions; r is what the platform answers to the one call made
WrapSpawn(w, c, r) ==
    LET pre == Hook(w, "on_spawn", <<>>, c)
        child == r
        post == Hook(w, "after_spawn", child, c)
    IN Done(c, pre \o <<PlatEv("spawn", child, c)>> \o post, child)

\* Faulty variant: output reports a process that exited with a failure as an error
WrapOutputFailsOnNonzero(w, c, r) ==
    LET pre == Hook(w, "on_output", <<>>, c)
        output == r
        post == Hook(w, "after_output", output, c)
    IN Done(c, pre \o <<PlatEv("output", output, c)>> \o post,
            IF output.ok /\ ~Success(output.val.status) THEN Err("Other") ELSE output)

\* Faulty variant: the pre-hook of output leaves the Command without arguments
WrapOutputHookResetsArgs(w, c, r) ==
    LET pre == Hook(w, "on_output", <<>>, c)
        left == [c EXCEPT !.args = <<>>]
        output == r
        post == Hook(w, "after_output", output, left)
    IN Done(left, pre \o <<PlatEv("output", output, left)>> \o post, output)

WrapOutput(w, c, r) ==
    LET pre == Hook(w, "on_output", <<>>, c)
        output == r
        post == Hook(w, "after_output", output, c)
    IN Done(c, pre \o <<PlatEv("output", output, c)>> \o post, output)

\* Faulty variant: status calls after_status only when the platform call succeeded
WrapStatusSkipsHookOnError(w, c, r) ==
    LET pre == Hook(w, "on_status", <<>>, c)
        status == r
        post == IF status.ok THEN Hook(w, "after_status", status, c) ELSE <<>>
    IN Done(c, pre \o <<PlatEv("status", status, c)>> \o post, status)

WrapStatus(w, c, r) ==
    LET pre == Hook(w, "on_status", <<>>, c)
        status == r
        post == Hook(w, "after_status", status, c)
    IN Done(c, pre \o <<PlatEv("status", status, c)>> \o post, status)

\* Direct use of the platform primitive
StdOutput(c, r) == Done(c, <<PlatEv("output", r, c)>>, r)
StdStatus(c, r) == Done(c, <<PlatEv("status", r, c)>>, r)
StdSpawn(c, r) == Done(c, <<PlatEv("spawn", r, c)>>, r)

----------------------------------------------------------------------------
(* CommandExtError and check *)

StdIoError(e) == [tag |-> "StdIoError", err |-> e]
CheckError(status, stdout, stderr) ==
    [tag |-> "Check", status |-> status, stdout |-> stdout, stderr |-> stderr]

\* Faulty variant: a successful run is handed back with its streams decoded
ClassifyDecodesOk(res) ==
    IF ~res.ok THEN Err(StdIoError(res.err))
    ELSE IF Success(res.val.status)
    THEN Ok([res.val EXCEPT !.stdout = Utf8Lossy(@), !.stderr = Utf8Lossy(@)])
    ELSE Err(CheckError(res.val.status,
                        Utf8Lossy(res.val.stdout),
                        Utf8Lossy(res.val.stderr)))

\* Faulty variant: a process that was never created is reported as a failed check
ClassifyIoAsCheck(res) ==
    IF ~res.ok THEN Err(CheckError([exited |-> TRUE, code |-> 1], <<>>, <<>>))
    ELSE IF Success(res.val.status) THEN Ok(res.val)
    ELSE Err(CheckError(res.val.status,
                        Utf8Lossy(res.val.stdout),
                        Utf8Lossy(res.val.stderr)))

\* Faulty variant: strict decoding, a stream that is not UTF-8 becomes an i/o error
ClassifyStrictDecode(res) ==
    IF ~res.ok THEN Err(StdIoError(res.err))
    ELSE IF Success(res.val.status) THEN Ok(res.val)
    ELSE IF \E i \in 1..Len(res.val.stdout) : res.val.stdout[i] \in InvalidBytes
    THEN Err(StdIoError("InvalidData"))
    ELSE Err(CheckError(res.val.status,
                        Utf8Lossy(res.val.stdout),
                        Utf8Lossy(res.val.stderr)))

\* .map_err(CommandExtError::from).and_then(|r| r.status.success()
\*     .then_some(r.clone()).ok_or_else(|| CommandExtError::Check {..}))
Classify(res) ==
    IF ~res.ok THEN Err(StdIoError(res.err))
    ELSE IF Success(res.val.status) THEN Ok(res.val)
    ELSE Err(CheckError(res.val.status,
                        Utf8Lossy(res.val.stdout),
                        Utf8Lossy(res.val.stderr)))

\* impl CommandExtCheck for Command
CommandCheck(c, r) ==
    LET out == StdOutput(c, r)
    IN Done(out.cmd, out.log, Classify(out.ret))

\* Faulty variant: check runs the Command itself, not the wrapper's output
CommandPrintCheckBypassesHooks(w, c, r) ==
    LET out == StdOutput(c, r)
    IN Done(out.cmd, out.log, Classify(out.ret))

\* Faulty variant: check runs the command again when the first run failed
CommandLogCheckRetries(w, c, r) ==
    LET out == WrapOutput(w, c, r)
        again == WrapOutput(w, c, r)
    IN IF out.ret.ok /\ Success(out.ret.val.status)
       THEN Done(out.cmd, out.log, Classify(out.ret))
       ELSE Done(again.cmd, out.log \o again.log, Classify(again.ret))

\* impl CommandExtCheck for CommandLog / CommandPrint / CommandTrace
CommandLogCheck(w, c, r) ==
    LET out == WrapOutput(w, c, r)
    IN Done(out.cmd, out.log, Classify(out.ret))

CommandPrintCheck(w, c, r) ==
    LET out == WrapOutput(w, c, r)
    IN Done(out.cmd, out.log, Classify(out.ret))

CommandTraceCheck(w, c, r) ==
    LET out == WrapOutput(w, c, r)
    IN Done(out.cmd, out.log, Classify(out.ret))

Check(w, c, r) ==
    CASE w.kind = "Command" -> CommandCheck(c, r)
      [] w.kind = "Log" -> CommandLogCheck(w, c, r)
      [] w.kind = "Print" -> CommandPrintCheck(w, c, r)
      [] w.kind = "Trace" -> CommandTraceCheck(w, c, r)

----------------------------------------------------------------------------
(* Wrappers the checks start from *)

BareCommand == Wrapper("Command", None, None, None, None, None, None)
PlainWrap == Wrapper("Wrap", None, None, None, None, None, None)
\* Command::new(..).log_args(Debug).log_envs(Trace).log_current_dir(Debug)
\*     .log_status(Info).log_stdout(Trace).log_stderr(Warn), and the like
LogAllOn ==
    Wrapper("Log", Some("Debug"), Some("Trace"), Some("Debug"),
            Some("Info"), Some("Trace"), Some("Warn"))
PrintOn == Some("println")
PrintAllOn == Wrapper("Print", PrintOn, PrintOn, PrintOn, PrintOn, PrintOn, PrintOn)
TraceAllOn ==
    Wrapper("Trace", Some("Debug"), Some("Trace"), Some("Debug"),
            Some("Info"), Some("Trace"), Some("Warn"))

\* .log_args(Level::Debug).log_status(Level::Info).log_stdout(Level::Trace)
\*     .log_stderr(Level::Warn)
LogDocExample ==
    Wrapper("Log", Some("Debug"), None, None,
            Some("Info"), Some("Trace"), Some("Warn"))

\* .trace_args(Level::ERROR) .. .trace_stderr(Level::ERROR), as the tests set them
TraceAllError ==
    Wrapper("Trace", Some("Error"), Some("Error"), Some("Error"),
            Some("Error"), Some("Error"), Some("Error"))

ChainWrappers == {PlainWrap, LogAllOn, PrintAllOn, TraceAllOn}
RunWrappers ==
    { BareCommand, PlainWrap, CommandLogFrom, LogAllOn, LogDocExample,
      CommandPrintFrom, PrintAllOn, CommandTraceFrom, TraceAllOn, TraceAllError }
\* echo a b, with X=1 set, Y removed and the working directory /tmp
Configured ==
    StdCurrentDir(
        StdEnvRemove(StdEnv(StdArgs(New(Echo), <<(<<"a">>), (<<"b">>)>>),
                            <<"X">>, <<"1">>),
                     <<"Y">>),
        <<"/tmp">>)
RunCommands ==
    {New(p) : p \in Programs} \cup {StdArg(New(Echo), <<"x">>), Configured}

IsWrapper(w) == w.kind # "Command"
HasCheck(w) == w.kind \in {"Command", "Log", "Print", "Trace"}
CommandRef == [ref |-> "Command"]

----------------------------------------------------------------------------
(* Several wrappers *)

RECURSIVE Flatten(_)
Flatten(ss) == IF ss = <<>> THEN <<>> ELSE Head(ss) \o Flatten(Tail(ss))

\* Faulty variant: a call also passes the wrappers that lent the Command
PassesLenders(w, lenders) == <<w>> \o lenders

\* The wrappers whose hooks a call made through w passes: w alone.  A wrapper
\* holds a &mut Command; when that Command was lent by another wrapper's
\* command_mut(), w reaches the Command itself and knows nothing of the lender.
Passes(w, lenders) == <<w>>

\* The events of a call made through the first wrapper of ws, l being what
\* the protocol method did on it: any further wrapper the call passes has the
\* same hooks called
Through(ws, l) ==
    l \o Flatten([i \in 1..(Len(ws) - 1) |->
                    Flatten([j \in 1..Len(Hooks(l)) |->
                               Hook(ws[i + 1], Hooks(l)[j].name,
                                    Hooks(l)[j].arg, Hooks(l)[j].seen)])])

\* A Command together with the wrapper around it
Pair(c, w) == [cmd |-> c, wrap |-> w]

\* Faulty variant: the two wrappers of the caller borrow one Command
SharedCommand(mine, theirs) == [theirs EXCEPT !.cmd = mine.cmd]

\* What a call that leaves the pair `mine` leaves of the caller's other pair.
\* A wrapper borrows its Command exclusively (&'a mut Command) and holds its
\* channels by value; the crate has no static state.
Exclusive(mine, theirs) == theirs

----------------------------------------------------------------------------
(* Actions: one call of the caller each.  res is the call through the      *)
(* wrapper, dres the same call made on the second Command directly.        *)

Apply(name, arg, res, dres) ==
    /\ call' = [name |-> name, arg |-> arg]
    /\ cmd' = res.cmd
    /\ log' = Through(Passes(wrap, inner), res.log)
    /\ ret' = res.ret
    /\ direct' = dres.cmd
    /\ dlog' = dres.log
    /\ dret' = dres.ret
    /\ peer' = Exclusive(Pair(res.cmd, wrap), peer)
    /\ UNCHANGED <<wrap, os, inner>>

Arg ==
    \E a \in ArgVals :
        /\ IsWrapper(wrap)
        /\ Len(cmd.args) < MaxArgs
        /\ Apply("arg", a, WrapArg(wrap, cmd, a),
                 Done(StdArg(direct, a), <<>>, CommandRef))

Args ==
    \E as \in SeqsUpTo(ArgVals, MaxArgs) :
        /\ IsWrapper(wrap)
        /\ Len(cmd.args) + Len(as) <= MaxArgs
        /\ Apply("args", as, WrapArgs(wrap, cmd, as),
                 Done(StdArgs(direct, as), <<>>, CommandRef))

Env ==
    \E k \in EnvKeys, v \in EnvVals :
        /\ IsWrapper(wrap)
        /\ Apply("env", <<k, v>>, WrapEnv(wrap, cmd, k, v),
                 Done(StdEnv(direct, k, v), <<>>, CommandRef))

Envs ==
    \E kvs \in SeqsUpTo(EnvKeys \X EnvVals, MaxPairs) :
        /\ IsWrapper(wrap)
        /\ Apply("envs", kvs, WrapEnvs(wrap, cmd, kvs),
                 Done(StdEnvs(direct, kvs), <<>>, CommandRef))

EnvRemove ==
    \E k \in EnvKeys :
        /\ IsWrapper(wrap)
        /\ Apply("env_remove", k, WrapEnvRemove(wrap, cmd, k),
                 Done(StdEnvRemove(direct, k), <<>>, CommandRef))

EnvClear ==
    /\ IsWrapper(wrap)
    /\ Apply("env_clear", <<>>, WrapEnvClear(wrap, cmd),
             Done(StdEnvClear(direct), <<>>, CommandRef))

CurrentDir ==
    \E d \in Dirs :
        /\ IsWrapper(wrap)
        /\ Apply("current_dir", d, WrapCurrentDir(wrap, cmd, d),
                 Done(StdCurrentDir(direct, d), <<>>, CommandRef))

Stdin ==
    \E cfg \in StdioVals :
        /\ IsWrapper(wrap)
        /\ Apply("stdin", cfg, WrapStdin(wrap, cmd, cfg),
                 Done(StdStdin(direct, cfg), <<>>, CommandRef))

Stdout ==
    \E cfg \in StdioVals :
        /\ IsWrapper(wrap)
        /\ Apply("stdout", cfg, WrapStdout(wrap, cmd, cfg),
                 Done(StdStdout(direct, cfg), <<>>, CommandRef))

Stderr ==
    \E cfg \in StdioVals :
        /\ IsWrapper(wrap)
        /\ Apply("stderr", cfg, WrapStderr(wrap, cmd, cfg),
                 Done(StdStderr(direct, cfg), <<>>, CommandRef))

SpawnCall ==
    /\ IsWrapper(wrap)
    /\ Apply("spawn", <<>>, WrapSpawn(wrap, cmd, PlatformSpawn(os)),
             StdSpawn(direct, PlatformSpawn(os)))

StatusCall ==
    /\ IsWrapper(wrap)
    /\ Apply("status", <<>>, WrapStatus(wrap, cmd, PlatformStatus(os)),
             StdStatus(direct, PlatformStatus(os)))

OutputCall ==
    /\ IsWrapper(wrap)
    /\ Apply("output", <<>>, WrapOutput(wrap, cmd, PlatformOutput(os)),
             StdOutput(direct, PlatformOutput(os)))

CheckCall ==
    /\ HasCheck(wrap)
    /\ Apply("check", <<>>, Check(wrap, cmd, PlatformOutput(os)),
             CommandCheck(direct, PlatformOutput(os)))

\* A call that makes or configures the wrapper: it touches no Command, fires
\* no hook and returns the wrapper
Configure(name, chan, level, w) ==
    /\ call' = [name |-> name, arg |-> <<chan, level>>]
    /\ wrap' = w
    /\ log' = <<>>
    /\ ret' = SelfRef(w)
    /\ dlog' = <<>>
    /\ dret' = CommandRef
    /\ peer' = Exclusive(Pair(cmd, w), peer)
    /\ UNCHANGED <<cmd, os, direct, inner>>

\* Command::log_<chan>(level), Command::print_<chan>(), Command::trace_<chan>(level)
ExtLog ==
    \E chan \in Channels, level \in ChannelLevels :
        /\ wrap.kind = "Command"
        /\ Configure("ext_log", chan, level, CommandExtLog(chan, level))

ExtPrint ==
    \E chan \in Channels :
        /\ wrap.kind = "Command"
        /\ Configure("ext_print", chan, "", CommandExtPrint(chan))

ExtTrace ==
    \E chan \in Channels, level \in ChannelLevels :
        /\ wrap.kind = "Command"
        /\ Configure("ext_trace", chan, level, CommandExtTrace(chan, level))

\* CommandLog::log_<chan>(level), CommandPrint::print_<chan>(),
\* CommandTrace::trace_<chan>(level)
SetLog ==
    \E chan \in Channels, level \in ChannelLevels :
        /\ wrap.kind = "Log"
        /\ Configure("log", chan, level, LogChannel(wrap, chan, level))

SetPrint ==
    \E chan \in Channels :
        /\ wrap.kind = "Print"
        /\ Configure("print", chan, "", PrintChannel(wrap, chan))

SetTrace ==
    \E chan \in Channels, level \in ChannelLevels :
        /\ wrap.kind = "Trace"
        /\ Configure("trace", chan, level, TraceChannel(wrap, chan, level))

\* The caller goes on with its other Command and wrapper
Turn ==
    /\ call' = [name |-> "turn", arg |-> <<>>]
    /\ cmd' = peer.cmd
    /\ wrap' = peer.wrap
    /\ peer' = Pair(cmd, wrap)
    /\ direct' = peer.cmd
    /\ log' = <<>>
    /\ ret' = SelfRef(peer.wrap)
    /\ dlog' = <<>>
    /\ dret' = CommandRef
    /\ UNCHANGED <<os, inner>>

----------------------------------------------------------------------------
(* Spec: call chains.  A wrapper is made around a new Command; the caller  *)
(* configures it through the builder methods and runs terminal actions.    *)

Init ==
    /\ cmd = New(Echo)
    /\ wrap \in ChainWrappers
    /\ os \in BriefFates(cmd)
    /\ call = [name |-> "new", arg |-> cmd.program]
    /\ log = <<>>
    /\ ret = SelfRef(wrap)
    /\ direct = cmd
    /\ dlog = <<>>
    /\ dret = CommandRef
    /\ inner = <<>>
    /\ peer = Pair(New(Echo), BareCommand)

Next ==
    \/ Arg
    \/ Args
    \/ Env
    \/ Envs
    \/ EnvRemove
    \/ EnvClear
    \/ CurrentDir
    \/ Stdin
    \/ Stdout
    \/ Stderr
    \/ SpawnCall
    \/ StatusCall
    \/ OutputCall
    \/ CheckCall

Spec == Init /\ [][Next]_vars

(* SpecRun: terminal actions and check on a configured Command, bare or    *)
(* wrapped, against everything the operating system can do with it.        *)

InitRun ==
    /\ cmd \in RunCommands
    /\ wrap \in RunWrappers
    /\ os \in Fates(cmd)
    /\ call = [name |-> "new", arg |-> cmd.program]
    /\ log = <<>>
    /\ ret = SelfRef(wrap)
    /\ direct = cmd
    /\ dlog = <<>>
    /\ dret = CommandRef
    /\ inner = <<>>
    /\ peer = Pair(New(Echo), BareCommand)

NextRun ==
    \/ SpawnCall
    \/ StatusCall
    \/ OutputCall
    \/ CheckCall

SpecRun == InitRun /\ [][NextRun]_vars

(* SpecChan: a Command is wrapped through an extension method, further     *)
(* channels are set on the wrapper, and terminal actions are run.          *)

\* The process fails to start, or exits with a failure after writing to
\* both of its streams
ChanFates ==
    { Err("PermissionDenied"),
      Ok([ status |-> [exited |-> TRUE, code |-> 1],
           stdout |-> <<"x">>, stderr |-> <<"x">> ]) }

InitChan ==
    /\ cmd = Configured
    /\ wrap = BareCommand
    /\ os \in ChanFates
    /\ call = [name |-> "new", arg |-> cmd.program]
    /\ log = <<>>
    /\ ret = SelfRef(wrap)
    /\ direct = cmd
    /\ dlog = <<>>
    /\ dret = CommandRef
    /\ inner = <<>>
    /\ peer = Pair(New(Echo), BareCommand)

NextChan ==
    \/ ExtLog
    \/ ExtPrint
    \/ ExtTrace
    \/ SetLog
    \/ SetPrint
    \/ SetTrace
    \/ SpawnCall
    \/ StatusCall
    \/ OutputCall
    \/ CheckCall

SpecChan == InitChan /\ [][NextChan]_vars

(* SpecNest: a second wrapper is built around the command handle of a      *)
(* first, W2::from(w1.command_mut()), its channels are set, and the calls  *)
(* are made through it.                                                    *)

InitNest ==
    /\ cmd = New(Echo)
    /\ wrap \in {PrintAllOn, TraceAllOn}
    /\ os \in BriefFates(cmd)
    /\ call = [name |-> "from", arg |-> cmd.program]
    /\ log = <<>>
    /\ ret = SelfRef(wrap)
    /\ direct = cmd
    /\ dlog = <<>>
    /\ dret = CommandRef
    /\ inner = <<LogAllOn>>
    /\ peer = Pair(New(Echo), BareCommand)

NextNest ==
    \/ Arg
    \/ Args
    \/ Env
    \/ EnvRemove
    \/ CurrentDir
    \/ SpawnCall
    \/ StatusCall
    \/ OutputCall

SpecNest == InitNest /\ [][NextNest]_vars

(* SpecTwo: the caller has two Commands, wraps each in its own wrapper and *)
(* configures and runs them in any interleaving.                           *)

InitTwo ==
    /\ cmd = New(Echo)
    /\ wrap = BareCommand
    /\ os \in BriefFates(cmd)
    /\ call = [name |-> "new", arg |-> cmd.program]
    /\ log = <<>>
    /\ ret = SelfRef(wrap)
    /\ direct = cmd
    /\ dlog = <<>>
    /\ dret = CommandRef
    /\ inner = <<>>
    /\ peer = Pair(New(Echo), BareCommand)

NextTwo ==
    \/ ExtPrint
    \/ (Len(cmd.args) < MaxArgsEach /\ Arg)
    \/ Env
    \/ CurrentDir
    \/ StatusCall
    \/ Turn

SpecTwo == InitTwo /\ [][NextTwo]_vars

----------------------------------------------------------------------------
(* Environment calls over two keys and two values, so that one envs call   *)
(* can give a key twice with different values, or two keys in either order *)

EnvKeysBoth == {EnvKeyOrder[1], EnvKeyOrder[2]}
EnvValsBoth == {<<"1">>, <<"2">>}

EnvAmong ==
    \E k \in EnvKeysBoth, v \in EnvValsBoth :
        /\ IsWrapper(wrap)
        /\ Apply("env", <<k, v>>, WrapEnv(wrap, cmd, k, v),
                 Done(StdEnv(direct, k, v), <<>>, CommandRef))

EnvsAmong ==
    \E kvs \in SeqsUpTo(EnvKeysBoth \X EnvValsBoth, MaxPairs) :
        /\ IsWrapper(wrap)
        /\ Apply("envs", kvs, WrapEnvs(wrap, cmd, kvs),
                 Done(StdEnvs(direct, kvs), <<>>, CommandRef))

InitEnvs ==
    /\ cmd = New(Echo)
    /\ wrap \in ChainWrappers
    /\ os \in BriefFates(cmd)
    /\ call = [name |-> "new", arg |-> cmd.program]
    /\ log = <<>>
    /\ ret = SelfRef(wrap)
    /\ direct = cmd
    /\ dlog = <<>>
    /\ dret = CommandRef
    /\ inner = <<>>
    /\ peer = Pair(New(Echo), BareCommand)

NextEnvs ==
    \/ EnvAmong
    \/ EnvsAmong
    \/ EnvRemove
    \/ EnvClear
    \/ StatusCall

SpecEnvs == InitEnvs /\ [][NextEnvs]_vars

----------------------------------------------------------------------------
(* Properties *)

TerminalActions == {"spawn", "output", "status"}
BuilderMethods ==
    { "arg", "args", "env", "envs", "env_remove", "env_clear",
      "current_dir", "stdin", "stdout", "stderr" }

PreHook(n) ==
    CASE n = "arg" -> "on_arg" [] n = "args" -> "on_args"
      [] n = "env" -> "on_env" [] n = "envs" -> "on_envs"
      [] n = "env_remove" -> "on_env_remove" [] n = "env_clear" -> "on_env_clear"
      [] n = "current_dir" -> "on_current_dir" [] n = "stdin" -> "on_stdin"
      [] n = "stdout" -> "on_stdout" [] n = "stderr" -> "on_stderr"
      [] n = "spawn" -> "on_spawn" [] n = "output" -> "on_output"
      [] n = "status" -> "on_status"
PostHook(n) ==
    CASE n = "spawn" -> "after_spawn" [] n = "output" -> "after_output"
      [] n = "status" -> "after_status"
ConfigHooks == {PreHook(n) : n \in BuilderMethods}

\* d is the lossy decoding of the bytes b: same length, valid bytes kept,
\* every other byte replaced by U+FFFD
IsLossyDecoding(b, d) ==
    /\ Len(d) = Len(b)
    /\ \A i \in 1..Len(b) :
          IF b[i] \in {"x", " ", "\n"} THEN d[i] = b[i] ELSE d[i] = "U+FFFD"

HasInvalidByte(b) == \E i \in 1..Len(b) : b[i] = "0xFF"

\* the events of a call that are not records: hook calls and platform calls
Steps(l) == SelectSeq(l, LAMBDA e : e.kind # "record")

\* C1: when the process was created and exited with success, check returns
\* Ok with the captured Output exactly as the platform produced it: the same
\* status and the same stdout and stderr bytes, none decoded or changed.
C1_CheckOkCarriesOutput ==
    (call.name = "check" /\ os.ok /\ Success(os.val.status)) =>
        /\ ret.ok
        /\ ret.val.status = os.val.status
        /\ ret.val.stdout = os.val.stdout
        /\ ret.val.stderr = os.val.stderr
        /\ ret.val = PlatformCalls(log)[1].arg.val

C1_Witness ==
    /\ call.name = "check"
    /\ os.ok /\ Success(os.val.status)
    /\ HasInvalidByte(os.val.stdout)
    /\ os.val.stderr # <<>>
    /\ ret.ok

\* C2: when the platform cannot create the process, check returns
\* StdIoError wrapping the platform's error, never Check.
C2_SpawnFailureIsStdIoError ==
    (call.name = "check" /\ ~os.ok) =>
        /\ ~ret.ok
        /\ ret.err.tag = "StdIoError"
        /\ ret.err.tag # "Check"
        /\ ret.err.err = os.err

C2_Witness ==
    /\ call.name = "check"
    /\ cmd.program = NoSuchProgram
    /\ ~ret.ok
    /\ ret.err.tag = "StdIoError"
    /\ ret.err.err = "NotFound"

\* C3: when the process ran to an exit status that indicates failure, check
\* returns Check with exactly that status and the lossy decoding of the
\* stdout and stderr of that run, whatever bytes they hold.
C3_FailureIsCheckWithDecodedStreams ==
    (call.name = "check" /\ os.ok /\ ~Success(os.val.status)) =>
        /\ ~ret.ok
        /\ ret.err.tag = "Check"
        /\ ret.err.status = os.val.status
        /\ IsLossyDecoding(os.val.stdout, ret.err.stdout)
        /\ IsLossyDecoding(os.val.stderr, ret.err.stderr)

C3_Witness ==
    /\ call.name = "check"
    /\ os.ok /\ ~os.val.status.exited
    /\ HasInvalidByte(os.val.stdout)
    /\ os.val.stderr # <<>>
    /\ ~ret.ok /\ ret.err.tag = "Check"

\* C4: one check, on a bare Command or on an observer, makes exactly one
\* platform call, a capture-output call, whatever its outcome, and yields
\* one classification: Ok, Check or StdIoError.
C4_CheckRunsOnce ==
    (call.name = "check") =>
        /\ Len(PlatformCalls(log)) = 1
        /\ PlatformCalls(log)[1].name = "output"
        /\ (ret.ok \/ ret.err.tag \in {"Check", "StdIoError"})

C4_Witness ==
    /\ call.name = "check"
    /\ wrap.kind = "Log"
    /\ os.ok /\ ~Success(os.val.status)
    /\ Len(PlatformCalls(log)) = 1
    /\ ~ret.ok

\* C5: spawn, output and status return exactly the Result of the platform
\* call; a completed process is returned as Ok whatever its exit code.
C5_ResultUnchanged ==
    (call.name \in TerminalActions) =>
        /\ Len(PlatformCalls(log)) = 1
        /\ ret = PlatformCalls(log)[1].arg
        /\ ret.ok = os.ok
        /\ (~os.ok => ret.err = os.err)
        /\ (os.ok /\ call.name = "output" => ret.val = os.val)
        /\ (os.ok /\ call.name = "status" => ret.val = os.val.status)

C5_Witness ==
    /\ call.name = "output"
    /\ wrap.kind = "Log"
    /\ Records(log) # <<>>
    /\ os.ok /\ ~Success(os.val.status)
    /\ ret.ok

\* C6: a wrapper that overrides no hook behaves as the direct use of the
\* Command: the same Command after every call, the same platform calls on
\* the same Command in the same order, the same result, and no record.
C6_DefaultWrapperIsTransparent ==
    (wrap.kind = "Wrap") =>
        /\ cmd = direct
        /\ PlatformCalls(log) = dlog
        /\ Records(log) = <<>>
        /\ (call.name \in TerminalActions => ret = dret)

C6_Witness ==
    /\ wrap.kind = "Wrap"
    /\ call.name = "output"
    /\ Len(cmd.args) = 2 /\ cmd.args[1] # cmd.args[2]
    /\ DOMAIN cmd.envs # {}
    /\ IsSome(cmd.cwd) /\ IsSome(cmd.stdin)
    /\ Len(dlog) = 1
    /\ ret.ok

\* C7: every terminal action calls its post-hook exactly once, after the
\* platform call has returned, with the Result that is then returned to the
\* caller, also when the platform call failed.
C7_PostHookOnce ==
    (call.name \in TerminalActions) =>
        LET steps == Steps(log)
            post == Named(Hooks(log), PostHook(call.name))
        IN /\ Len(post) = 1
           /\ post[1].arg = ret
           /\ \E i, j \in 1..Len(steps) :
                 /\ i < j
                 /\ steps[i].kind = "platform"
                 /\ steps[j].kind = "hook" /\ steps[j].name = PostHook(call.name)
                 /\ steps[j].arg = steps[i].arg

C7_Witness ==
    /\ call.name = "status"
    /\ ~os.ok
    /\ Len(Named(Hooks(log), "after_status")) = 1
    /\ ~Named(Hooks(log), "after_status")[1].arg.ok

\* C8: terminal action X is the event order on_X, platform call X, after_X,
\* one of each and no hook or platform call of another kind.
C8_TerminalEventOrder ==
    (call.name \in TerminalActions) =>
        /\ Names(Steps(log)) = <<PreHook(call.name), call.name, PostHook(call.name)>>
        /\ Steps(log)[1].kind = "hook"
        /\ Steps(log)[2].kind = "platform"
        /\ Steps(log)[3].kind = "hook"

C8_Witness ==
    /\ call.name = "spawn"
    /\ wrap.kind = "Print"
    /\ Records(log) # <<>>
    /\ Names(Steps(log)) = <<"on_spawn", "spawn", "after_spawn">>

\* C9: every builder method fires its own pre-hook exactly once per call,
\* applies the mutation to the Command and returns the same wrapper.
C9_BuilderFiresItsHook ==
    (call.name \in BuilderMethods) =>
        /\ Len(Hooks(log)) = 1
        /\ Hooks(log)[1].name = PreHook(call.name)
        /\ cmd = direct
        /\ ret = SelfRef(wrap)

\* C10: a configuration pre-hook sees the Command as it was before the call:
\* nothing of this call's mutation, and all of the earlier ones.
C10_PreHookSeesStateBefore ==
    [][ \A i \in 1..Len(log') :
          (log'[i].kind = "hook" /\ log'[i].name \in ConfigHooks) =>
              /\ log'[i].seen = cmd
              /\ log'[i].seen = direct ]_vars

C10_Witness ==
    /\ call.name = "envs"
    /\ Len(call.arg) = 2
    /\ Len(Hooks(log)) = 1
    /\ Hooks(log)[1].name = "on_envs"
    /\ Hooks(log)[1].seen # cmd
    /\ DOMAIN Hooks(log)[1].seen.envs = {}

\* What a caller reads back through the accessors of the wrapper
ReadBack(w, c) ==
    [ args |-> WrapGetArgs(w, c), envs |-> WrapGetEnvs(w, c),
      current_dir |-> WrapGetCurrentDir(w, c) ]

\* The explicit state of key k in a read-back environment: "inherited" when
\* k has no entry, "unset" when its entry is None, else <<value>>
EntryOf(envs, k) ==
    IF \E i \in 1..Len(envs) : envs[i][1] = k
    THEN LET i == CHOOSE j \in 1..Len(envs) : envs[j][1] = k
         IN IF IsSome(envs[i][2]) THEN envs[i][2] ELSE "unset"
    ELSE "inherited"

\* The value the last pair of kvs with key k gives it, old when there is none
LastPut(kvs, k, old) ==
    IF \E i \in 1..Len(kvs) : kvs[i][1] = k
    THEN LET i == CHOOSE j \in 1..Len(kvs) :
                      kvs[j][1] = k /\ \A m \in (j + 1)..Len(kvs) : kvs[m][1] # k
         IN Some(kvs[i][2])
    ELSE old

\* What one builder call makes of the state of key k, replayed as the
\* documentation of the builder methods states it
ReplayEntry(old, n, a, k) ==
    CASE n = "env" /\ a[1] = k -> Some(a[2])
      [] n = "envs" -> LastPut(a, k, old)
      [] n = "env_remove" /\ a = k -> "unset"
      [] n = "env_clear" -> "inherited"
      [] OTHER -> old

\* C11: round trip.  After every call made through a wrapper the accessors
\* read back the configuration read before it with that call replayed on it:
\* arguments in call order, the last working directory, and for each key the
\* last of env / envs (its value), env_remove (explicitly unset: an entry
\* with None, not the value) and env_clear (no entry).
C11_RoundTrip ==
    [][ LET before == ReadBack(wrap, cmd)
            after == ReadBack(wrap', cmd')
            n == call'.name
            a == call'.arg
        IN /\ after.args = (CASE n = "arg" -> Append(before.args, a)
                              [] n = "args" -> before.args \o a
                              [] OTHER -> before.args)
           /\ after.current_dir =
                  (IF n = "current_dir" THEN Some(a) ELSE before.current_dir)
           /\ \A k \in EnvKeys :
                  EntryOf(after.envs, k) =
                      ReplayEntry(EntryOf(before.envs, k), n, a, k) ]_vars

Observers == {"Log", "Print", "Trace"}
Chars == {"x", " ", "\n", "U+FFFD"}

\* every byte of b is whitespace (so nothing is left of it after trimming)
IsBlank(b) == \A i \in 1..Len(b) : b[i] \in {" ", "\n"}

\* t is d without its leading and trailing whitespace: the stretch of d from
\* its first to its last character that is not whitespace
IsTrimOf(d, t) ==
    \E i, j \in 1..Len(d) :
        /\ i <= j
        /\ t = SubSeq(d, i, j)
        /\ d[i] \notin {" ", "\n"} /\ d[j] \notin {" ", "\n"}
        /\ \A k \in 1..Len(d) : (k < i \/ k > j) => d[k] \in {" ", "\n"}

StreamPrefix(chan) == IF chan = "stdout" THEN "stdout: " ELSE "stderr: "

\* C12: after output on an observer with the stdout (stderr) channel enabled,
\* a captured stream that is empty after trimming gives no record of that
\* channel; any other gives exactly one, whose content is the decoded stream
\* without its surrounding whitespace.
C12_StreamRecordTrimmedOrSuppressed ==
    (call.name \in {"output", "check"} /\ wrap.kind \in Observers /\ os.ok) =>
        \A chan \in {"stdout", "stderr"} :
            IsSome(wrap[chan]) =>
                LET recs == Named(Records(log), chan)
                    bytes == os.val[chan]
                IN IF IsBlank(bytes) THEN recs = <<>>
                   ELSE /\ Len(recs) = 1
                        /\ Head(recs[1].arg.msg) = StreamPrefix(chan)
                        /\ \E d \in [1..Len(bytes) -> Chars] :
                              /\ IsLossyDecoding(bytes, d)
                              /\ IsTrimOf(d, Tail(recs[1].arg.msg))

C12_Witness ==
    /\ call.name = "output"
    /\ wrap.kind = "Log" /\ IsSome(wrap.stdout) /\ IsSome(wrap.stderr)
    /\ os.ok /\ os.val.stdout = <<" ", "x">> /\ os.val.stderr = <<>>
    /\ Len(Named(Records(log), "stdout")) = 1
    /\ Named(Records(log), "stdout")[1].arg.msg = <<"stdout: ", "x">>
    /\ Named(Records(log), "stderr") = <<>>

PreChannels == {"args", "envs", "current_dir"}
PostChannels == {"status", "stdout", "stderr"}

\* The records of a call emitted before its platform call, and those after
PlatformAt(l) == CHOOSE i \in 1..Len(l) : l[i].kind = "platform"
RecordsBefore(l) == Records(SubSeq(l, 1, PlatformAt(l) - 1))
RecordsAfter(l) == Records(SubSeq(l, PlatformAt(l) + 1, Len(l)))

\* C13: every terminal action on an observer emits each enabled
\* pre-execution channel once (args once, envs once for each entry,
\* current_dir once), before the platform call; a terminal action that
\* follows another one on the same wrapper emits them again, the same
\* records as the first time.
C13_PreChannelsRefire ==
    [][ (call'.name \in TerminalActions /\ wrap.kind \in Observers) =>
          LET pre == RecordsBefore(log')
          IN /\ \A chan \in {"args", "current_dir"} :
                    Len(Named(pre, chan)) = (IF IsSome(wrap[chan]) THEN 1 ELSE 0)
             /\ Len(Named(pre, "envs")) =
                    (IF IsSome(wrap.envs) THEN Len(WrapGetEnvs(wrap, cmd)) ELSE 0)
             /\ \A chan \in PreChannels :
                    Named(Records(log'), chan) = Named(pre, chan)
             /\ (call.name \in TerminalActions => pre = RecordsBefore(log)) ]_vars

C13_Witness ==
    /\ call.name = "status"
    /\ wrap.kind = "Print"
    /\ cmd = Configured
    /\ Names(RecordsBefore(log)) = <<"args", "envs", "envs", "current_dir">>

\* n times the name chan
Repeat(chan, n) == [i \in 1..n |-> chan]
\* <<chan>> if the channel is enabled on w
IfOn(w, chan) == IF IsSome(w[chan]) THEN <<chan>> ELSE <<>>

\* C14: one output() on an observer, the process completing with stdout and
\* stderr that are not blank: the enabled channels emit args, one envs record
\* for each environment entry in the order of the entries, current_dir, all
\* before the platform call, then status, stdout, stderr after it; a record
\* of CommandLog or CommandTrace has the severity set for its own channel.
C14_ChannelOrderAndSeverity ==
    ( /\ call.name = "output" /\ wrap.kind \in Observers
      /\ os.ok /\ ~IsBlank(os.val.stdout) /\ ~IsBlank(os.val.stderr) ) =>
        LET entries == WrapGetEnvs(wrap, cmd)
            pre == RecordsBefore(log)
            post == RecordsAfter(log)
            envRecs == Named(pre, "envs")
        IN /\ Names(pre) =
                  IfOn(wrap, "args")
                  \o (IF IsSome(wrap.envs) THEN Repeat("envs", Len(entries)) ELSE <<>>)
                  \o IfOn(wrap, "current_dir")
           /\ Names(post) =
                  IfOn(wrap, "status") \o IfOn(wrap, "stdout") \o IfOn(wrap, "stderr")
           /\ \A i \in 1..Len(envRecs) :
                  SubSeq(envRecs[i].arg.msg, 1, 3) = <<"envs: ">> \o entries[i][1] \o <<"=">>
           /\ (wrap.kind \in {"Log", "Trace"} =>
                  \A i \in 1..Len(Records(log)) :
                      Records(log)[i].arg.level = Unwrap(wrap[Records(log)[i].name]))

C14_Witness ==
    /\ call.name = "output"
    /\ wrap = LogAllOn
    /\ cmd = Configured
    /\ os.ok /\ os.val.stdout = <<"x">> /\ os.val.stderr = <<"x">>
    /\ Names(Records(log)) =
           <<"args", "envs", "envs", "current_dir", "status", "stdout", "stderr">>
    /\ [i \in 1..7 |-> Records(log)[i].arg.level] =
           <<"Debug", "Trace", "Trace", "Debug", "Info", "Trace", "Warn">>

ExtCalls == {"ext_log", "ext_print", "ext_trace"}
SetCalls == {"log", "print", "trace"}

\* C15: channels are independent.  A call emits a record of a channel only
\* if that channel is enabled; a wrapper made from a Command by one channel
\* method has that channel enabled and the other five disabled; enabling a
\* channel on a wrapper leaves the setting of every other channel, enabled or
\* not and its severity, as it was.
C15_ChannelsIndependent ==
    [][ /\ \A i \in 1..Len(log') :
              log'[i].kind = "record" => IsSome(wrap'[log'[i].name])
        /\ (call'.name \in ExtCalls /\ wrap.kind = "Command" =>
              /\ IsSome(wrap'[call'.arg[1]])
              /\ \A chan \in Channels \ {call'.arg[1]} : wrap'[chan] = None)
        /\ (call'.name \in SetCalls /\ wrap.kind \in Observers =>
              /\ IsSome(wrap'[call'.arg[1]])
              /\ \A chan \in Channels \ {call'.arg[1]} : wrap'[chan] = wrap[chan])
      ]_vars

C15_Witness ==
    /\ call.name = "output"
    /\ wrap.kind = "Log"
    /\ wrap.stdout = Some("Debug") /\ wrap.args = Some("Warn")
    /\ wrap.stderr = None /\ wrap.status = None
    /\ os.ok /\ os.val.stderr # <<>>
    /\ Names(Records(log)) = <<"args", "stdout">>

SinkOf(kind) ==
    CASE kind = "Log" -> "log" [] kind = "Print" -> "println"
      [] kind = "Trace" -> "tracing"

\* how many times hook n is called in l
HookCount(l, n) == Len(Named(Hooks(l), n))

C17_ObserverCheckRunsOwnOutput ==
    (call.name = "check" /\ wrap.kind \in Observers) =>
        /\ Names(Steps(log)) = <<"on_output", "output", "after_output">>
        /\ HookCount(log, "on_output") = 1
        /\ HookCount(log, "after_output") = 1
        /\ Names(RecordsBefore(log)) =
               IfOn(wrap, "args")
               \o (IF IsSome(wrap.envs)
                   THEN Repeat("envs", Len(WrapGetEnvs(wrap, cmd))) ELSE <<>>)
               \o IfOn(wrap, "current_dir")
        /\ (os.ok =>
              Names(RecordsAfter(log)) =
                  IfOn(wrap, "status")
                  \o (IF IsBlank(os.val.stdout) THEN <<>> ELSE IfOn(wrap, "stdout"))
                  \o (IF IsBlank(os.val.stderr) THEN <<>> ELSE IfOn(wrap, "stderr")))
        /\ (~os.ok => RecordsAfter(log) = <<>>)
        /\ ret = dret
        /\ PlatformCalls(log) = dlog

C17_Witness ==
    /\ call.name = "check"
    /\ wrap = PrintAllOn
    /\ cmd = Configured
    /\ os.ok /\ ~Success(os.val.status)
    /\ Names(Records(log)) =
           <<"args", "envs", "envs", "current_dir", "status", "stdout", "stderr">>
    /\ ~ret.ok /\ ret.err.tag = "Check"
    /\ ret = dret

\* CommandLog with the channels of w, each at the log::Level of the same name
LogTwin(w) == [w EXCEPT !.kind = "Log"]

\* the records of l as <<severity, message>>
SeverityAndMessage(l) ==
    [i \in 1..Len(Records(l)) |->
        <<Records(l)[i].arg.level, Records(l)[i].arg.msg>>]

\* the call named n made through CommandLog with the channels of `wrap`, on
\* the same Command with the same platform result
SameCallLogged(n) ==
    CASE n = "spawn" -> WrapSpawn(LogTwin(wrap), cmd, PlatformSpawn(os))
      [] n = "status" -> WrapStatus(LogTwin(wrap), cmd, PlatformStatus(os))
      [] n = "output" -> WrapOutput(LogTwin(wrap), cmd, PlatformOutput(os))
      [] n = "check" -> CommandLogCheck(LogTwin(wrap), cmd, PlatformOutput(os))

\* C18: the trace observer behaves as the log observer: after every terminal
\* action (and check) in any sequence, CommandTrace has emitted the records,
\* severity and message, in the order CommandLog emits for the same channels,
\* Command and platform result, around the same hook and platform calls, and
\* has returned the same value.
C18_TraceBehavesAsLog ==
    (wrap.kind = "Trace" /\ call.name \in TerminalActions \cup {"check"}) =>
        LET same == SameCallLogged(call.name)
        IN /\ SeverityAndMessage(log) = SeverityAndMessage(same.log)
           /\ Steps(log) = Steps(same.log)
           /\ ret = same.ret
           /\ \A i \in 1..Len(Records(log)) :
                 /\ Records(log)[i].arg.sink = "tracing"
                 /\ Records(same.log)[i].arg.sink = "log"
                 /\ Records(log)[i].name = Records(same.log)[i].name

C18_Witness ==
    /\ wrap = TraceAllOn
    /\ call.name = "output"
    /\ cmd = Configured
    /\ os.ok /\ os.val.stdout # <<>> /\ os.val.stderr # <<>>
    /\ SeverityAndMessage(log)[1] = <<"Debug", <<"args: ", "echo", " ", "a", " ", "b">> >>
    /\ SeverityAndMessage(log)[7][1] = "Warn"
    /\ Len(Records(log)) = 7

C20_StatusRecordOncePerRun ==
    ( /\ wrap.kind \in Observers /\ IsSome(wrap.status)
      /\ call.name \in {"output", "status"} /\ os.ok ) =>
        LET recs == Named(Records(log), "status")
        IN /\ Len(recs) = 1
           /\ Named(RecordsAfter(log), "status") = recs
           /\ Head(recs[1].arg.msg) = "status: "
           /\ \A st \in ExitStatuses :
                 (Tail(recs[1].arg.msg) = DisplayStatus(st)) <=> (st = os.val.status)
           /\ ret.ok
           /\ (call.name = "status" => ret.val = os.val.status)
           /\ (call.name = "output" => ret.val.status = os.val.status)

C20_Witness ==
    /\ call.name = "status"
    /\ wrap.kind = "Log" /\ IsSome(wrap.status)
    /\ os.ok /\ os.val.status = [exited |-> TRUE, code |-> 1]
    /\ Len(Named(Records(log), "status")) = 1
    /\ Named(Records(log), "status")[1].arg.msg = <<"status: ", "exit status: ", "1">>

\* the value of an Option, empty when it is None
OrEmpty(o) == IF IsSome(o) THEN Unwrap(o) ELSE <<>>

\* C21: the pre-execution records of a terminal action show the Command as
\* it is read back when the action is invoked: the program and every
\* argument in order, one record for each environment entry, and the working
\* directory, whatever was added through the wrapper since it was made.
C21_PreRecordsShowCommandAtCall ==
    [][ (call'.name \in TerminalActions /\ wrap.kind \in Observers) =>
          LET pre == RecordsBefore(log')
              now == ReadBack(wrap, cmd)
          IN /\ (IsSome(wrap.args) =>
                   LET msg == Named(pre, "args")[1].arg.msg
                   IN /\ Head(msg) = "args: "
                      /\ SelectSeq(Tail(msg), LAMBDA t : t # " ") =
                             WrapGetProgram(wrap, cmd) \o Flatten(now.args))
             /\ (IsSome(wrap.envs) =>
                   /\ Len(Named(pre, "envs")) = Len(now.envs)
                   /\ \A i \in 1..Len(now.envs) :
                         Named(pre, "envs")[i].arg.msg =
                             <<"envs: ">> \o now.envs[i][1] \o <<"=">>
                                 \o OrEmpty(now.envs[i][2]))
             /\ (IsSome(wrap.current_dir) =>
                   Named(pre, "current_dir")[1].arg.msg =
                       <<"current_dir: ">> \o OrEmpty(now.current_dir)) ]_vars

C21_Witness ==
    /\ call.name = "spawn"
    /\ wrap = PrintAllOn
    /\ cmd.args = <<(<<"b">>), (<<"a">>)>>
    /\ Named(Records(log), "args")[1].arg.msg = <<"args: ", "echo", " ", "b", " ", "a">>
    /\ Len(Named(Records(log), "envs")) = 1
    /\ Named(Records(log), "envs")[1].arg.msg = <<"envs: ", "X", "=", "1">>
    /\ Named(Records(log), "current_dir")[1].arg.msg = <<"current_dir: ", "/tmp">>

\* C22: a terminal action on an observer leaves the wrapper's channels and
\* the Command as they were: the program, arguments, environment and
\* working directory read back after it equal those read back before it,
\* and the platform call and every hook of the action see that same Command.
C22_ObserverHooksOnlyObserve ==
    [][ (call'.name \in TerminalActions /\ wrap.kind \in Observers) =>
          /\ wrap' = wrap
          /\ WrapGetProgram(wrap', cmd') = WrapGetProgram(wrap, cmd)
          /\ ReadBack(wrap', cmd') = ReadBack(wrap, cmd)
          /\ \A i \in 1..Len(log') :
                log'[i].kind \in {"hook", "platform"} => log'[i].seen = cmd ]_vars

C22_Witness ==
    /\ call.name = "output"
    /\ wrap = LogAllOn
    /\ cmd = Configured
    /\ Len(Records(log)) >= 6
    /\ ReadBack(wrap, cmd).args = <<(<<"a">>), (<<"b">>)>>

\* C23: a wrapper views the Command it was made from and no copy of it:
\* after any calls through the wrapper, its accessors return what the
\* accessors of that Command return, and both show every mutation the
\* builder calls made, as a Command given the same calls directly shows them.
C23_WrapperViewsTheCommand ==
    IsWrapper(wrap) =>
        /\ WrapGetProgram(wrap, cmd) = GetProgram(cmd)
        /\ WrapGetArgs(wrap, cmd) = GetArgs(cmd)
        /\ WrapGetEnvs(wrap, cmd) = GetEnvs(cmd)
        /\ WrapGetCurrentDir(wrap, cmd) = GetCurrentDir(cmd)
        /\ GetProgram(cmd) = GetProgram(direct)
        /\ GetArgs(cmd) = GetArgs(direct)
        /\ GetEnvs(cmd) = GetEnvs(direct)
        /\ GetCurrentDir(cmd) = GetCurrentDir(direct)
        /\ cmd = direct

C23_Witness ==
    /\ call.name = "current_dir"
    /\ wrap = TraceAllOn
    /\ WrapGetArgs(wrap, cmd) = <<(<<"a">>), (<<"b">>)>>
    /\ GetArgs(cmd) = <<(<<"a">>), (<<"b">>)>>
    /\ Len(WrapGetEnvs(wrap, cmd)) = 1
    /\ WrapGetCurrentDir(wrap, cmd) = Some(<<"/tmp">>)

\* C24: when the platform call of output() or status() on an observer fails,
\* the enabled pre-execution records of the call have been emitted before
\* it, no record at all follows it, and the caller gets the failure of the
\* platform call.
C24_FailedCallEmitsNoPostRecord ==
    ( /\ call.name \in {"output", "status"} /\ wrap.kind \in Observers
      /\ ~os.ok ) =>
        /\ Names(RecordsBefore(log)) =
               IfOn(wrap, "args")
               \o (IF IsSome(wrap.envs)
                   THEN Repeat("envs", Len(WrapGetEnvs(wrap, cmd))) ELSE <<>>)
               \o IfOn(wrap, "current_dir")
        /\ RecordsAfter(log) = <<>>
        /\ \A chan \in PostChannels : Named(Records(log), chan) = <<>>
        /\ ret = Err(os.err)
        /\ PostHook(call.name) \in { Hooks(log)[i].name : i \in 1..Len(Hooks(log)) }

C24_Witness ==
    /\ call.name = "output"
    /\ wrap = TraceAllOn
    /\ cmd = Configured
    /\ ret = Err("PermissionDenied")
    /\ Names(Records(log)) = <<"args", "envs", "envs", "current_dir">>

\* C25: spawn on an observer emits the enabled pre-execution records before
\* the platform call and nothing else: after_spawn is called and emits no
\* record, whatever channels are enabled and whether the process was
\* created or not.
C25_SpawnEmitsNoPostRecord ==
    (call.name = "spawn" /\ wrap.kind \in Observers) =>
        /\ Names(Records(log)) =
               IfOn(wrap, "args")
               \o (IF IsSome(wrap.envs)
                   THEN Repeat("envs", Len(WrapGetEnvs(wrap, cmd))) ELSE <<>>)
               \o IfOn(wrap, "current_dir")
        /\ Records(log) = RecordsBefore(log)
        /\ Hooks(log)[Len(Hooks(log))].name = "after_spawn"
        /\ Hooks(log)[Len(Hooks(log))].arg = PlatformSpawn(os)

C25_Witness ==
    /\ call.name = "spawn"
    /\ wrap = LogAllOn
    /\ cmd = Configured
    /\ ret = Ok("Child")
    /\ Names(Records(log)) = <<"args", "envs", "envs", "current_dir">>

\* C26: after any sequence of terminal actions on an observer, a stdout or
\* stderr record of the last call comes after a platform call of output, in
\* output() or in check(); status() emits after its platform call the status
\* record when that channel is enabled and the call succeeded, and nothing
\* else, whatever the process wrote and whatever channels are enabled.
C26_StreamRecordsOnlyAfterOutput ==
    wrap.kind \in Observers =>
        /\ (Named(Records(log), "stdout") \o Named(Records(log), "stderr") # <<>> =>
               /\ call.name \in {"output", "check"}
               /\ log[PlatformAt(log)].name = "output"
               /\ Named(RecordsBefore(log), "stdout") = <<>>
               /\ Named(RecordsBefore(log), "stderr") = <<>>)
        /\ (call.name = "status" =>
               Names(RecordsAfter(log)) =
                   (IF os.ok THEN IfOn(wrap, "status") ELSE <<>>))

C26_Witness ==
    /\ call.name = "status"
    /\ wrap = PrintAllOn
    /\ os.ok /\ ~IsBlank(os.val.stdout) /\ ~IsBlank(os.val.stderr)
    /\ Names(RecordsAfter(log)) = <<"status">>

\* The envs records the pre-hook of w emits for the Command c
EnvsRecordsFor(w, c) == Named(Records(Hook(w, "on_output", <<>>, c)), "envs")

\* C27: with the envs channel enabled, the pre-hook of a terminal action
\* emits one envs record for each entry of the explicit environment, in the
\* order of the entries; the record of an entry that env_remove left is
\* KEY= with nothing after it, the record the same key set to the empty
\* string gets; a Command whose environment was cleared and has no entry
\* gets no envs record.
C27_EnvsRecordPerEntry ==
    ( /\ call.name \in TerminalActions \cup {"check"}
      /\ wrap.kind \in Observers /\ IsSome(wrap.envs) ) =>
        LET entries == WrapGetEnvs(wrap, cmd)
            recs == Named(RecordsBefore(log), "envs")
        IN /\ Len(recs) = Len(entries)
           /\ \A i \in 1..Len(entries) :
                 /\ Len(recs[i].arg.msg) >= 3
                 /\ SubSeq(recs[i].arg.msg, 1, 3) =
                        <<"envs: ">> \o entries[i][1] \o <<"=">>
                 /\ (entries[i][2] = None =>
                        /\ Len(recs[i].arg.msg) = 3
                        /\ recs[i] =
                               EnvsRecordsFor(wrap, StdEnv(cmd, entries[i][1], <<>>))[i])
           /\ (cmd.clear /\ entries = <<>> => Named(Records(log), "envs") = <<>>)

C27_Witness ==
    /\ call.name = "status"
    /\ wrap = LogAllOn
    /\ ~cmd.clear
    /\ WrapGetEnvs(wrap, cmd) = <<(<<(<<"X">>), None>>)>>
    /\ Len(Named(Records(log), "envs")) = 1
    /\ Named(Records(log), "envs")[1].arg.msg = <<"envs: ", "X", "=">>

\* C28: with the current_dir channel enabled, every terminal action on an
\* observer emits one current_dir record: with the configured directory
\* after the label, and with nothing after the label when no working
\* directory was configured; a stdout or stderr channel whose trimmed
\* stream is empty emits no record in the same call.
C28_CurrentDirRecordAlways ==
    ( /\ call.name \in TerminalActions \cup {"check"}
      /\ wrap.kind \in Observers /\ IsSome(wrap.current_dir) ) =>
        LET recs == Named(Records(log), "current_dir")
        IN /\ Len(recs) = 1
           /\ recs = Named(RecordsBefore(log), "current_dir")
           /\ recs[1].arg.msg =
                  (IF WrapGetCurrentDir(wrap, cmd) = None
                   THEN <<"current_dir: ">>
                   ELSE <<"current_dir: ">> \o Unwrap(WrapGetCurrentDir(wrap, cmd)))
           /\ (os.ok /\ IsBlank(os.val.stdout) => Named(Records(log), "stdout") = <<>>)
           /\ (os.ok /\ IsBlank(os.val.stderr) => Named(Records(log), "stderr") = <<>>)

C28_Witness ==
    /\ call.name = "output"
    /\ wrap = TraceAllOn
    /\ WrapGetCurrentDir(wrap, cmd) = None
    /\ os.ok /\ os.val.stdout = <<>>
    /\ Len(Named(Records(log), "current_dir")) = 1
    /\ Named(Records(log), "current_dir")[1].arg.msg = <<"current_dir: ">>
    /\ Named(Records(log), "stdout") = <<>>

\* The Command that one env call for each pair of kvs, made through the
\* wrapper in the order of kvs, leaves of c, and the hooks those calls fire
RECURSIVE EnvCalls(_, _, _)
EnvCalls(w, c, kvs) ==
    IF kvs = <<>> THEN Done(c, <<>>, SelfRef(w))
    ELSE LET one == WrapEnv(w, c, kvs[1][1], kvs[1][2])
             rest == EnvCalls(w, one.cmd, Tail(kvs))
         IN Done(rest.cmd, one.log \o rest.log, rest.ret)

\* C29: one envs call with n pairs fires on_envs once, with the n pairs in
\* their order, and on_env never; each key among the pairs then reads back
\* the value of its last pair, every other key is as it was, and the Command
\* is the one that n env calls with the same pairs in the same order leave.
C29_EnvsIsOneHookManyEnv ==
    [][ call'.name = "envs" =>
          LET kvs == call'.arg
              before == WrapGetEnvs(wrap, cmd)
              after == WrapGetEnvs(wrap', cmd')
          IN /\ Len(Hooks(log')) = 1
             /\ Hooks(log')[1].name = "on_envs"
             /\ Hooks(log')[1].arg = kvs
             /\ Named(log', "on_env") = <<>>
             /\ \A k \in EnvKeysBoth :
                   EntryOf(after, k) = LastPut(kvs, k, EntryOf(before, k))
             /\ cmd' = EnvCalls(wrap, cmd, kvs).cmd
             /\ Len(Hooks(EnvCalls(wrap, cmd, kvs).log)) = Len(kvs) ]_vars

C29_Witness ==
    /\ call.name = "envs"
    /\ call.arg = << <<(<<"X">>), (<<"1">>)>>, <<(<<"X">>), (<<"2">>)>> >>
    /\ wrap = LogAllOn
    /\ Names(Hooks(log)) = <<"on_envs">>
    /\ WrapGetEnvs(wrap, cmd) = << <<(<<"X">>), Some(<<"2">>)>> >>
====
